---- MODULE Spec2Model ----
(***************************************************************************)
(* Model of the IDProperty addon (src/__init__.py): lazily allocated       *)
(* unique ids on host entities, the per-scene id counters, the             *)
(* ID_TO_HASH / HASH_TO_NAME identity cache, the reference property        *)
(* getter and setter, and the load_file handler.                           *)
(*                                                                         *)
(* Host model.  An entity is a handle; hash(ob) is the                     *)
(* handle itself: it is unchanged by a rename, a duplicate gets a new      *)
(* handle, and a handle is never issued twice.  Names are unique among the *)
(* live entities of one collection.  Python's None is NoneVal for          *)
(* integers and hashes and NoneName for names.                             *)
(***************************************************************************)
EXTENDS Integers, Sequences, FiniteSets, TLC

\* ---------------------------------------------------------------- bounds
MaxEnt == 2
MaxLibs == 2
MaxId == 3
MaxScenes == 2
MaxNames == 3
MaxReentries == 2

\* ------------------------------------------------------------- constants
LIB_ID_SPACE == 10000000

SUPPORTED_COLLECTIONS == <<"objects", "materials", "groups", "libraries">>

Kinds == {SUPPORTED_COLLECTIONS[i] : i \in 1..Len(SUPPORTED_COLLECTIONS)}

NoneVal == -1
NoneName == "None"

\* Names in ascending order; the empty string is the getter's not-found value.
NameList == <<"A", "A2", "B", "C", "D">>
Names == {NameList[i] : i \in 1..MaxNames}
NameRank(n) == CHOOSE i \in 1..Len(NameList) : NameList[i] = n

\* The reference properties declared by the host: both target bpy.data.objects,
\* "g" is declared with a validator, "f" without.  The history variables
\* target and phase follow the property Watched.
Fields == {"f", "g"}
FieldKind(f) == "objects"
HasValidator(f) == f = "g"
Watched == "g"

\* Objects (and materials, groups) take the handles 1..MaxEnt, libraries the
\* handles above them.
Handles == 1..(MaxEnt + MaxLibs)
Dead == [alive |-> FALSE, kind |-> "objects", name |-> "", raw |-> 0, lib |-> 0]

VARIABLES
    ents,          \* handle -> [alive, kind, name, raw, lib]; raw is ob["id"]
    hashes,        \* handles issued so far: [obs |-> n, libs |-> m]
    scenes,        \* list(bpy.data.scenes): per scene [kind -> <kind>_id_counter]
    ID_TO_HASH,    \* kind -> (id -> hash)
    HASH_TO_NAME,  \* kind -> (hash -> name)
    props,         \* field -> stored id (self[value_key]); NoneVal if absent
    last,          \* the last call: <<operation, outcome>>
    target,        \* the entity the Watched property was last successfully set to, 0 if none
    phase,         \* what happened to it since: "none", "set", "renamed", "deleted"
    scn,           \* progress through the end-to-end scenario, 0 when off it
    call           \* the id getter taken statement by statement: where it stands

vars == <<ents, hashes, scenes, ID_TO_HASH, HASH_TO_NAME, props, last, target, phase,
          scn, call>>

\* ------------------------------------------------------------ host access
Live(es, kind) == {h \in Handles : es[h].alive /\ es[h].kind = kind}

\* data.get(name, None) / name in data: 0 stands for None
Lookup(es, kind, name) ==
    IF \E h \in Live(es, kind) : es[h].name = name
    THEN CHOOSE h \in Live(es, kind) : es[h].name = name
    ELSE 0

DictGet(d, k, default) == IF k \in DOMAIN d THEN d[k] ELSE default

DictSet(d, k, v) == [x \in (DOMAIN d) \cup {k} |-> IF x = k THEN v ELSE d[x]]

SetMax(S) == CHOOSE x \in S : \A y \in S : y <= x

\* ---------------------------------------------------------- counter store
_get_global_id(sc, field) == SetMax({sc[s][field] : s \in DOMAIN sc})

\* (fault: only the first scene is written)
_inc_global_id_first_scene(sc, field, old_max_id) ==
    [s \in DOMAIN sc |->
        IF s = 1 THEN [sc[s] EXCEPT ![field] = old_max_id + 1] ELSE sc[s]]

_inc_global_id(sc, field, old_max_id) ==
    [s \in DOMAIN sc |-> [sc[s] EXCEPT ![field] = old_max_id + 1]]

\* ------------------------------------------------------------ id attribute
\* Results carry the host state: es (entities), sc (scenes), and raised when
\* _get_global_id indexed an empty list of scenes.

\* (fault: the stored id is not looked at)
IdUnset_always(es, h) == TRUE

\* id = self.get("id", 0); if not id
IdUnset(es, h) == es[h].raw = 0

\* self["id"] = id; _inc_global_id(field, id)
Allocate(es, sc, h, id) ==
    [es |-> [es EXCEPT ![h].raw = id],
     sc |-> _inc_global_id(sc, es[h].kind, id),
     raised |-> FALSE]

\* (fault: with no scene the default 1 is handed out)
EnsureId_default(es, sc, h) ==
    IF ~IdUnset(es, h) THEN [es |-> es, sc |-> sc, raised |-> FALSE]
    ELSE IF DOMAIN sc = {}
    THEN [es |-> [es EXCEPT ![h].raw = 1], sc |-> sc, raised |-> FALSE]
    ELSE Allocate(es, sc, h, _get_global_id(sc, es[h].kind))

\* The first half of the id getter: allocate when unset.
EnsureId(es, sc, h) ==
    IF ~IdUnset(es, h) THEN [es |-> es, sc |-> sc, raised |-> FALSE]
    ELSE IF DOMAIN sc = {} THEN [es |-> es, sc |-> sc, raised |-> TRUE]
    ELSE Allocate(es, sc, h, _get_global_id(sc, es[h].kind))

\* lib_offset = (self.library.id + 1) * LIB_ID_SPACE; l is self.library.id
AddLibOffset(id, l) ==
    IF l.raised THEN [l EXCEPT !.val = 0]
    ELSE [l EXCEPT !.val = id + (l.val + 1) * LIB_ID_SPACE]

RECURSIVE _create_id_getter(_, _, _)

\* The second half of the id getter, a being the result of the first.
ReturnId(a, h) ==
    IF a.raised
    THEN [es |-> a.es, sc |-> a.sc, val |-> 0, raised |-> TRUE]
    ELSE IF a.es[h].lib = 0
    THEN [es |-> a.es, sc |-> a.sc, val |-> a.es[h].raw, raised |-> FALSE]
    ELSE AddLibOffset(a.es[h].raw, _create_id_getter(a.es, a.sc, a.es[h].lib))

\* type.id: returns [es, sc, val, raised]
_create_id_getter(es, sc, h) == ReturnId(EnsureId(es, sc, h), h)

\* hash(ob): the identity of the entity's storage.
Hash(h) == h

\* ------------------------------------------------------------ name resolver
\* get_by_id: the entity, or 0 for None
get_by_id(es, ith, htn, data_field, id) ==
    LET hash    == DictGet(ith[data_field], id, NoneVal)
        ob_name == DictGet(htn[data_field], hash, NoneName)
    IN  IF ob_name # NoneName /\ ob_name # ""
        THEN Lookup(es, data_field, ob_name)
        ELSE 0

\* if ob is not None: both caches take ob (ob is what get_by_id returned)
Recovered(es, ith, htn, data_field, ob_id, ob) ==
    IF ob = 0
    THEN [ith |-> ith, htn |-> htn, ob_hash |-> NoneVal]
    ELSE [ith |-> [ith EXCEPT ![data_field] = DictSet(@, ob_id, Hash(ob))],
          htn |-> [htn EXCEPT ![data_field] = DictSet(@, Hash(ob), es[ob].name)],
          ob_hash |-> Hash(ob)]

\* ob_hash = ID_TO_HASH[data_field].get(ob_id, None), with the recovery
HashOfId(es, ith, htn, data_field, ob_id) ==
    IF DictGet(ith[data_field], ob_id, NoneVal) # NoneVal
    THEN [ith |-> ith, htn |-> htn, ob_hash |-> ith[data_field][ob_id]]
    ELSE Recovered(es, ith, htn, data_field, ob_id,
                   get_by_id(es, ith, htn, data_field, ob_id))

\* for name, ob in data.items(): match holds the objects whose hash is ob_hash
Scanned(es, c, data_field, ob_name, match) ==
    IF match = {}
    THEN [ith |-> c.ith, htn |-> c.htn, ob_name |-> ob_name]
    ELSE [ith |-> c.ith,
          htn |-> [c.htn EXCEPT ![data_field] =
                      DictSet(@, c.ob_hash, es[CHOOSE h \in match : TRUE].name)],
          ob_name |-> es[CHOOSE h \in match : TRUE].name]

\* exists = ob_name is not None and ob_name in data; if not exists: scan
NameOfHash(es, c, data_field, ob_name) ==
    IF ob_name # NoneName /\ Lookup(es, data_field, ob_name) # 0
    THEN [ith |-> c.ith, htn |-> c.htn, ob_name |-> ob_name]
    ELSE Scanned(es, c, data_field, ob_name,
                 {h \in Live(es, data_field) : c.ob_hash = Hash(h)})

\* ob_name = HASH_TO_NAME[data_field].get(ob_hash, None) and what follows
CachedName(es, c, data_field) ==
    NameOfHash(es, c, data_field, DictGet(c.htn[data_field], c.ob_hash, NoneName))

\* (fault: None is returned as it is)
ReturnName_none(r) ==
    [ith |-> r.ith, htn |-> r.htn, name |-> r.ob_name]

\* if ob_name is None: ob_name = ""; return ob_name
ReturnName(r) ==
    [ith |-> r.ith, htn |-> r.htn,
     name |-> IF r.ob_name = NoneName THEN "" ELSE r.ob_name]

\* The fn of create_getter, applied to the stored id ob_id:
\* returns the two caches and the name, [ith, htn, name].
create_getter(es, ith, htn, data_field, ob_id) ==
    ReturnName(CachedName(es, HashOfId(es, ith, htn, data_field, ob_id), data_field))

\* What reading field f returns in the current state.
ReadName(f) ==
    create_getter(ents, ID_TO_HASH, HASH_TO_NAME, FieldKind(f), props[f]).name

\* ---------------------------------------------------------------- setter
\* (fault: the id is not unset before it is read again)
ResetId_kept(es, ob) == es

\* ob["id"] = 0
ResetId(es, ob) == [es EXCEPT ![ob].raw = 0]

\* (fault: the validator's answer is dropped)
Valid_unchecked(f, valid) == TRUE

\* valid = True; if validator: valid = validator(ob)
Valid(f, valid) == IF HasValidator(f) THEN valid ELSE TRUE

\* ID_TO_HASH[data_field][ob.id] = ob_hash; HASH_TO_NAME[data_field][ob_hash] =
\* ob.name, g2 being ob.id read after the reset
Reevaluated(ith, htn, data_field, ob, g2) ==
    IF g2.raised
    THEN [es |-> g2.es, sc |-> g2.sc, ith |-> ith, htn |-> htn, raised |-> TRUE]
    ELSE [es |-> g2.es, sc |-> g2.sc,
          ith |-> [ith EXCEPT ![data_field] = DictSet(@, g2.val, Hash(ob))],
          htn |-> [htn EXCEPT ![data_field] = DictSet(@, Hash(ob), g2.es[ob].name)],
          raised |-> FALSE]

\* expected_hash = ID_TO_HASH[data_field].get(ob.id, None);
\* if ob_hash != expected_hash: re-evaluate.  g1 is that first ob.id.
Checked(ith, htn, data_field, ob, g1) ==
    IF g1.raised
    THEN [es |-> g1.es, sc |-> g1.sc, ith |-> ith, htn |-> htn, raised |-> TRUE]
    ELSE IF Hash(ob) # DictGet(ith[data_field], g1.val, NoneVal)
    THEN Reevaluated(ith, htn, data_field, ob,
                     _create_id_getter(ResetId(g1.es, ob), g1.sc, ob))
    ELSE [es |-> g1.es, sc |-> g1.sc, ith |-> ith, htn |-> htn, raised |-> FALSE]

\* self[value_key] = ob.id, g3 being that ob.id
Stored(c, pr, f, ob, g3) ==
    [es |-> g3.es, sc |-> g3.sc, ith |-> c.ith, htn |-> c.htn,
     pr |-> IF g3.raised THEN pr ELSE [pr EXCEPT ![f] = g3.val],
     ob |-> ob, ok |-> ~g3.raised, raised |-> g3.raised]

StoreId(c, pr, f, ob) ==
    IF c.raised
    THEN [es |-> c.es, sc |-> c.sc, ith |-> c.ith, htn |-> c.htn, pr |-> pr,
          ob |-> ob, ok |-> FALSE, raised |-> TRUE]
    ELSE Stored(c, pr, f, ob, _create_id_getter(c.es, c.sc, ob))

\* The else branch of the setter with ob = data.get(value, None)
SetToObject(es, sc, ith, htn, pr, f, ob, valid) ==
    IF ob = 0 \/ ~Valid(f, valid)
    THEN [es |-> es, sc |-> sc, ith |-> ith, htn |-> htn, pr |-> pr,
          ob |-> ob, ok |-> FALSE, raised |-> FALSE]
    ELSE StoreId(Checked(ith, htn, FieldKind(f), ob, _create_id_getter(es, sc, ob)),
                 pr, f, ob)

\* The fn of create_setter for field f, called with value; valid is what the
\* validator answers if it is asked.
\* Returns [es, sc, ith, htn, pr, ob, ok, raised]: ob the entity named (0 for
\* None), ok whether its id was stored.
create_setter(es, sc, ith, htn, pr, f, value, valid) ==
    IF value = ""
    THEN [es |-> es, sc |-> sc, ith |-> ith, htn |-> htn,
          pr |-> [pr EXCEPT ![f] = 0], ob |-> 0, ok |-> FALSE, raised |-> FALSE]
    ELSE SetToObject(es, sc, ith, htn, pr, f, Lookup(es, FieldKind(f), value), valid)

\* ------------------------------------------------------------- load_file
\* sorted(list(col), key=lambda ob: ob.name, reverse=True)
RECURSIVE SortedByNameDesc(_, _)
SortedByNameDesc(es, S) ==
    IF S = {} THEN <<>>
    ELSE LET h == CHOOSE x \in S :
                    \A y \in S : NameRank(es[y].name) <= NameRank(es[x].name)
         IN  <<h>> \o SortedByNameDesc(es, S \ {h})

\* The loop state st = [es, sc, d_ith, d_htn, raised]: d_ith and d_htn are the
\* fresh dictionaries id_to_hash and hash_to_name of the collection.

\* id_to_hash[ob.id] = hash(ob); hash_to_name[hash(ob)] = ob.name, g2 being ob.id
Recorded(st, ob, g2) ==
    IF g2.raised
    THEN [st EXCEPT !.es = g2.es, !.sc = g2.sc, !.raised = TRUE]
    ELSE [es |-> g2.es, sc |-> g2.sc,
          d_ith |-> DictSet(st.d_ith, g2.val, Hash(ob)),
          d_htn |-> DictSet(st.d_htn, Hash(ob), g2.es[ob].name),
          raised |-> FALSE]

\* if ob.id in id_to_hash: ob["id"] = 0, g1 being that ob.id
Deduplicated(st, ob, g1) ==
    IF g1.raised
    THEN [st EXCEPT !.raised = TRUE]
    ELSE IF g1.val \in DOMAIN st.d_ith
    THEN Recorded(st, ob, _create_id_getter(ResetId(g1.es, ob), g1.sc, ob))
    ELSE Recorded(st, ob, _create_id_getter(g1.es, g1.sc, ob))

\* for ob in all_obs
RECURSIVE LoadObs(_, _)
LoadObs(st, all_obs) ==
    IF all_obs = <<>> \/ st.raised THEN st
    ELSE LoadObs(Deduplicated(st, Head(all_obs),
                              _create_id_getter(st.es, st.sc, Head(all_obs))),
                 Tail(all_obs))

\* ID_TO_HASH[col_name] = id_to_hash; HASH_TO_NAME[col_name] = hash_to_name
Installed(g, col_name, r) ==
    [es |-> r.es, sc |-> r.sc,
     ith |-> [g.ith EXCEPT ![col_name] = r.d_ith],
     htn |-> [g.htn EXCEPT ![col_name] = r.d_htn],
     raised |-> r.raised]

\* One round of the outer loop of load_file
LoadCollection(g, col_name) ==
    Installed(g, col_name,
              LoadObs([es |-> g.es, sc |-> g.sc, d_ith |-> <<>>, d_htn |-> <<>>,
                       raised |-> FALSE],
                      SortedByNameDesc(g.es, Live(g.es, col_name))))

\* load_file from the i-th supported collection on; g = [es, sc, ith, htn, raised]
RECURSIVE load_file(_, _)
load_file(g, i) ==
    IF i > Len(SUPPORTED_COLLECTIONS) \/ g.raised THEN g
    ELSE load_file(LoadCollection(g, SUPPORTED_COLLECTIONS[i]), i + 1)

\* ------------------------------------------------------------------ Init
CountersBounded(sc) == \A s \in DOMAIN sc : \A k \in Kinds : sc[s][k] <= MaxId + 1

\* No id getter is in progress.
NoCall == [pc |-> "idle", h |-> 0, id |-> 0, n |-> 0, start |-> 0, early |-> FALSE,
           inner |-> 0]

\* register() has run on an empty file with one scene: every counter holds
\* the default 1 and load_file has installed empty dictionaries.
Init ==
    /\ ents = [h \in Handles |-> Dead]
    /\ hashes = [obs |-> 0, libs |-> 0]
    /\ scenes = <<[k \in Kinds |-> 1]>>
    /\ ID_TO_HASH = [k \in Kinds |-> <<>>]
    /\ HASH_TO_NAME = [k \in Kinds |-> <<>>]
    /\ props = [f \in Fields |-> NoneVal]
    /\ last = "init"
    /\ target = 0
    /\ phase = "none"
    /\ scn = 1
    /\ call = NoCall

\* The same file in a host that holds no scene: list(bpy.data.scenes) is
\* empty.
InitNoScene ==
    /\ ents = [h \in Handles |-> Dead]
    /\ hashes = [obs |-> 0, libs |-> 0]
    /\ scenes = <<>>
    /\ ID_TO_HASH = [k \in Kinds |-> <<>>]
    /\ HASH_TO_NAME = [k \in Kinds |-> <<>>]
    /\ props = [f \in Fields |-> NoneVal]
    /\ last = "init"
    /\ target = 0
    /\ phase = "none"
    /\ scn = 0
    /\ call = NoCall

\* History of the Watched property: a host change other than a rename of its target
\* ends the undisturbed phases.
Disturbed == IF phase \in {"set", "renamed"} THEN "other" ELSE phase

\* ----------------------------------------------------------- host actions
FreeName(kind, n) == Lookup(ents, kind, n) = 0

\* The host hands every new entity storage that was never used before.
CanCreate(kind) ==
    IF kind = "libraries" THEN hashes.libs < MaxLibs ELSE hashes.obs < MaxEnt

NewHandle(kind) ==
    IF kind = "libraries" THEN MaxEnt + hashes.libs + 1 ELSE hashes.obs + 1

Issued(kind) ==
    IF kind = "libraries" THEN [hashes EXCEPT !.libs = @ + 1]
    ELSE [hashes EXCEPT !.obs = @ + 1]

\* bpy.data.<kind>.new(name): a fresh entity without id (or a library loaded)
CreateEntity(kind, n) ==
    /\ CanCreate(kind)
    /\ FreeName(kind, n)
    /\ hashes' = Issued(kind)
    /\ ents' = [ents EXCEPT ![NewHandle(kind)] =
                  [alive |-> TRUE, kind |-> kind, name |-> n, raw |-> 0, lib |-> 0]]
    /\ last' = "host"
    /\ phase' = Disturbed
    /\ scn' = IF scn = 1 /\ kind = "objects" /\ n = "A" THEN 2
              ELSE IF scn = 3 /\ kind = "objects" /\ n = "B" THEN 4
              ELSE 0
    /\ UNCHANGED <<scenes, ID_TO_HASH, HASH_TO_NAME, props, target, call>>

\* An object linked from library l: it carries the raw id saved in that file.
LinkEntity(l, n, raw) ==
    /\ CanCreate("objects")
    /\ ents[l].alive /\ ents[l].kind = "libraries"
    /\ FreeName("objects", n)
    /\ hashes' = Issued("objects")
    /\ ents' = [ents EXCEPT ![NewHandle("objects")] =
                  [alive |-> TRUE, kind |-> "objects", name |-> n, raw |-> raw, lib |-> l]]
    /\ last' = "host"
    /\ phase' = Disturbed
    /\ scn' = 0
    /\ UNCHANGED <<scenes, ID_TO_HASH, HASH_TO_NAME, props, target, call>>

\* ob.copy(): a local copy with a new hash; the custom property "id" is copied.
Duplicate(h, n) ==
    /\ CanCreate(ents[h].kind)
    /\ ents[h].alive /\ ents[h].kind # "libraries"
    /\ FreeName(ents[h].kind, n)
    /\ hashes' = Issued(ents[h].kind)
    /\ ents' = [ents EXCEPT ![NewHandle(ents[h].kind)] =
                  [alive |-> TRUE, kind |-> ents[h].kind, name |-> n,
                   raw |-> ents[h].raw, lib |-> 0]]
    /\ last' = "host"
    /\ phase' = Disturbed
    /\ scn' = 0
    /\ UNCHANGED <<scenes, ID_TO_HASH, HASH_TO_NAME, props, target, call>>

Rename(h, n) ==
    /\ ents[h].alive
    /\ ents[h].name # n
    /\ FreeName(ents[h].kind, n)
    /\ ents' = [ents EXCEPT ![h].name = n]
    /\ last' = "host"
    /\ phase' = IF phase \in {"set", "renamed"}
                THEN (IF h = target THEN "renamed" ELSE "other")
                ELSE phase
    /\ scn' = IF scn = 6 /\ ents[h].kind = "objects" /\ ents[h].name = "A" /\ n = "A2"
              THEN 7 ELSE 0
    /\ UNCHANGED <<hashes, scenes, ID_TO_HASH, HASH_TO_NAME, props, target, call>>

\* bpy.data.<kind>.remove(ob); a library goes only when nothing is linked from it
Delete(h) ==
    /\ ents[h].alive
    /\ \A o \in Handles : ents[o].alive => ents[o].lib # h
    /\ ents' = [ents EXCEPT ![h] = Dead]
    /\ last' = "host"
    /\ target' = IF h = target THEN 0 ELSE target
    /\ phase' = IF h = target THEN "deleted" ELSE Disturbed
    /\ scn' = 0
    /\ UNCHANGED <<hashes, scenes, ID_TO_HASH, HASH_TO_NAME, props, call>>

\* bpy.data.scenes.new(): the counters of a new scene read their default 1
NewScene ==
    /\ Len(scenes) < MaxScenes
    /\ scenes' = Append(scenes, [k \in Kinds |-> 1])
    /\ last' = "host"
    /\ scn' = 0
    /\ UNCHANGED <<ents, hashes, ID_TO_HASH, HASH_TO_NAME, props, target, phase, call>>

\* bpy.data.scenes.remove(scene): the host keeps at least one scene
DeleteScene(s) ==
    /\ s \in DOMAIN scenes
    /\ Len(scenes) > 1
    /\ scenes' = [i \in 1..(Len(scenes) - 1) |->
                    IF i < s THEN scenes[i] ELSE scenes[i + 1]]
    /\ last' = "host"
    /\ scn' = 0
    /\ UNCHANGED <<ents, hashes, ID_TO_HASH, HASH_TO_NAME, props, target, phase, call>>

\* -------------------------------------------------------- addon operations
\* The host state takes what a call returned; a call that would raise or
\* pass the id bound is not taken.
Returned(r) ==
    /\ ~r.raised
    /\ CountersBounded(r.sc)
    /\ ents' = r.es
    /\ scenes' = r.sc

\* Reading ob.id
IdRead(h) ==
    /\ ents[h].alive
    /\ Returned(_create_id_getter(ents, scenes, h))
    /\ last' = "id"
    /\ scn' = IF scn = 2 /\ ents[h].kind = "objects" /\ ents[h].name = "A" THEN 3
              ELSE IF scn = 4 /\ ents[h].kind = "objects" /\ ents[h].name = "B" THEN 5
              ELSE 0
    /\ UNCHANGED <<hashes, ID_TO_HASH, HASH_TO_NAME, props, target, phase, call>>

\* The call ends in the exception r carries (scenes[0] of an empty list);
\* what it wrote before stays.
Raised(r) ==
    /\ r.raised
    /\ ents' = r.es
    /\ scenes' = r.sc

\* Reading ob.id ends in an IndexError
IdReadRaises(h) ==
    /\ ents[h].alive
    /\ Raised(_create_id_getter(ents, scenes, h))
    /\ last' = "raised"
    /\ scn' = 0
    /\ UNCHANGED <<hashes, ID_TO_HASH, HASH_TO_NAME, props, target, phase, call>>

Cached(r) ==
    /\ ID_TO_HASH' = r.ith
    /\ HASH_TO_NAME' = r.htn

\* Reading the reference property f
Get(f) ==
    /\ Cached(create_getter(ents, ID_TO_HASH, HASH_TO_NAME, FieldKind(f), props[f]))
    /\ last' = "get"
    /\ scn' = IF scn = 7 /\ f = Watched THEN 8 ELSE 0
    /\ UNCHANGED <<ents, hashes, scenes, props, target, phase, call>>

\* What a set leaves behind, r being what create_setter returned
Assigned(f, value, r) ==
    /\ Returned(r)
    /\ Cached(r)
    /\ props' = r.pr
    /\ last' = IF r.ok THEN "set"
               ELSE IF value = "" THEN "cleared"
               ELSE IF r.ob # 0 THEN "rejected"
               ELSE "ignored"
    /\ target' = IF f # Watched THEN target
                 ELSE IF r.ok THEN r.ob
                 ELSE IF value = "" THEN 0
                 ELSE target
    /\ phase' = IF f # Watched THEN phase
                ELSE IF r.ok THEN "set"
                ELSE IF value = "" THEN "none"
                ELSE phase

\* Assigning value to the reference property f; valid is the validator's answer
Set(f, value, valid) ==
    /\ HasValidator(f) \/ valid
    /\ Assigned(f, value,
                create_setter(ents, scenes, ID_TO_HASH, HASH_TO_NAME, props,
                              f, value, valid))
    /\ scn' = IF scn = 5 /\ f = Watched /\ value = "A" /\ valid THEN 6 ELSE 0
    /\ UNCHANGED <<hashes, call>>

\* The load_post handler (the file is reopened with the same content)
Reload ==
    /\ Returned(load_file([es |-> ents, sc |-> scenes, ith |-> ID_TO_HASH,
                           htn |-> HASH_TO_NAME, raised |-> FALSE], 1))
    /\ Cached(load_file([es |-> ents, sc |-> scenes, ith |-> ID_TO_HASH,
                         htn |-> HASH_TO_NAME, raised |-> FALSE], 1))
    /\ last' = "load"
    /\ phase' = Disturbed
    /\ scn' = 0
    /\ UNCHANGED <<hashes, props, target, call>>

\* One allocation for kind k as the id getter performs it:
\* _inc_global_id(field, _get_global_id(field))
Advance(k) ==
    /\ _get_global_id(scenes, k) <= MaxId
    /\ scenes' = _inc_global_id(scenes, k, _get_global_id(scenes, k))
    /\ last' = "advance"
    /\ scn' = 0
    /\ UNCHANGED <<ents, hashes, ID_TO_HASH, HASH_TO_NAME, props, target, phase, call>>

\* ------------------------------------------- the id getter, step by step
\* The id getter of entity call.h taken one statement at a time, so that a
\* read of the same id can come in between two statements.  call.pc names
\* the statement that runs next: "get" (id = _get_global_id(field)), "store"
\* (self["id"] = id), "inc" (_inc_global_id, about to write scene call.n).
\* call.start is the counter when the call began, call.inner counts the
\* reads that came in, call.early tells whether one came in before the store.
Idle == call.pc = "idle"

\* id = self.get("id", 0); if not id: (an id that is set is returned at once,
\* which IdRead covers)
GetterEnter(h) ==
    /\ Idle
    /\ ents[h].alive
    /\ IdUnset(ents, h)
    /\ _get_global_id(scenes, ents[h].kind) <= MaxId
    /\ call' = [pc |-> "get", h |-> h, id |-> 0, n |-> 0,
                start |-> _get_global_id(scenes, ents[h].kind),
                early |-> FALSE, inner |-> 0]
    /\ last' = "enter"
    /\ scn' = 0
    /\ UNCHANGED <<ents, hashes, scenes, ID_TO_HASH, HASH_TO_NAME, props, target, phase>>

\* id = _get_global_id(field)
GetterReadMax ==
    /\ call.pc = "get"
    /\ call' = [call EXCEPT !.pc = "store",
                            !.id = _get_global_id(scenes, ents[call.h].kind)]
    /\ last' = "step"
    /\ scn' = 0
    /\ UNCHANGED <<ents, hashes, scenes, ID_TO_HASH, HASH_TO_NAME, props, target, phase>>

\* self["id"] = id
GetterStore ==
    /\ call.pc = "store"
    /\ ents' = [ents EXCEPT ![call.h].raw = call.id]
    /\ call' = [call EXCEPT !.pc = "inc", !.n = 1]
    /\ last' = "step"
    /\ scn' = 0
    /\ UNCHANGED <<hashes, scenes, ID_TO_HASH, HASH_TO_NAME, props, target, phase>>

\* for scene in bpy.data.scenes: setattr(scene, field, new_id)
GetterIncScene ==
    /\ call.pc = "inc"
    /\ call.n <= Len(scenes)
    /\ call.id <= MaxId
    /\ scenes' = [scenes EXCEPT ![call.n][ents[call.h].kind] = call.id + 1]
    /\ call' = [call EXCEPT !.n = @ + 1]
    /\ last' = "step"
    /\ scn' = 0
    /\ UNCHANGED <<ents, hashes, ID_TO_HASH, HASH_TO_NAME, props, target, phase>>

\* The rest of the getter: the library offset and the return
GetterReturn ==
    /\ call.pc = "inc"
    /\ call.n > Len(scenes)
    /\ Returned(ReturnId([es |-> ents, sc |-> scenes, raised |-> FALSE], call.h))
    /\ call' = [call EXCEPT !.pc = "idle"]
    /\ last' = "id"
    /\ scn' = 0
    /\ UNCHANGED <<hashes, ID_TO_HASH, HASH_TO_NAME, props, target, phase>>

\* A read of the same entity's id comes in while the call is under way and
\* runs to its end.
GetterReenter ==
    /\ ~Idle
    /\ call.inner < MaxReentries
    /\ Returned(_create_id_getter(ents, scenes, call.h))
    /\ call' = [call EXCEPT !.inner = @ + 1,
                            !.early = @ \/ call.pc \in {"get", "store"}]
    /\ last' = "inner"
    /\ scn' = 0
    /\ UNCHANGED <<hashes, ID_TO_HASH, HASH_TO_NAME, props, target, phase>>

\* ---------------------------------------------------------- specifications
\* Local objects and the validated reference property in a file of one scene.
Next ==
    \/ \E n \in Names : CreateEntity("objects", n)
    \/ \E h \in Handles, n \in Names : Duplicate(h, n)
    \/ \E h \in Handles, n \in Names : Rename(h, n)
    \/ \E h \in Handles : Delete(h)
    \/ \E h \in Handles : IdRead(h)
    \/ Get(Watched)
    \/ \E value \in Names \cup {""}, valid \in BOOLEAN : Set(Watched, value, valid)
    \/ Reload

Spec == Init /\ [][Next]_vars

\* Scenes come and go while objects are created, duplicated, referenced by
\* both properties and reloaded.
NextScenes ==
    \/ \E n \in Names : CreateEntity("objects", n)
    \/ \E h \in Handles, n \in Names : Duplicate(h, n)
    \/ NewScene
    \/ \E s \in 1..MaxScenes : DeleteScene(s)
    \/ \E h \in Handles : IdRead(h)
    \/ \E f \in Fields, value \in Names, valid \in BOOLEAN : Set(f, value, valid)
    \/ Reload

SpecScenes == Init /\ [][NextScenes]_vars

\* Libraries and objects linked from them, next to local objects.
NextLinked ==
    \/ \E k \in {"objects", "libraries"}, n \in Names : CreateEntity(k, n)
    \/ \E l \in Handles, n \in Names, raw \in 0..MaxId : LinkEntity(l, n, raw)
    \/ \E h \in Handles, n \in Names : Duplicate(h, n)
    \/ \E h \in Handles : Delete(h)
    \/ NewScene
    \/ \E s \in 1..MaxScenes : DeleteScene(s)
    \/ \E h \in Handles : IdRead(h)

SpecLinked == Init /\ [][NextLinked]_vars

\* The counter store alone: allocations of every kind, scenes coming and going.
NextCounter ==
    \/ \E k \in Kinds : Advance(k)
    \/ NewScene
    \/ \E s \in 1..MaxScenes : DeleteScene(s)

SpecCounter == Init /\ [][NextCounter]_vars

\* The id getter taken statement by statement, with reads coming in.
NextSteps ==
    \/ \E n \in Names : Idle /\ CreateEntity("objects", n)
    \/ Idle /\ NewScene
    \/ \E s \in 1..MaxScenes : Idle /\ DeleteScene(s)
    \/ \E h \in Handles : Idle /\ IdRead(h)
    \/ \E h \in Handles : GetterEnter(h)
    \/ GetterReadMax
    \/ GetterStore
    \/ GetterIncScene
    \/ GetterReturn
    \/ GetterReenter

SpecSteps == Init /\ [][NextSteps]_vars

\* A host without scenes: entities appear and are linked, ids are read, and
\* scenes come later.
NextNoScene ==
    \/ \E k \in {"objects", "libraries"}, n \in Names : CreateEntity(k, n)
    \/ \E l \in Handles, n \in Names, raw \in 0..MaxId : LinkEntity(l, n, raw)
    \/ NewScene
    \/ \E h \in Handles : IdRead(h)
    \/ \E h \in Handles : IdReadRaises(h)

SpecNoScene == InitNoScene /\ [][NextNoScene]_vars

\* ------------------------------------------------------------------ claims

\* C1 (Spec): once the property has been set to a live entity A and only A
\* has been renamed since (nothing else renamed, created, duplicated, deleted
\* or reloaded, the property not set again), reading the property returns
\* A's current name.
C1_RenameInvariance ==
    phase = "renamed" => ReadName(Watched) = ents[target].name

\* C2 (Spec): once the property has been set to a live entity A and A has been
\* deleted, reading the property returns the empty string.
C2_DeletedReadsEmpty ==
    phase = "deleted" => ReadName(Watched) = ""

\* Reading the property right after the set that returned s gives value.
ReadsBack(value, s) ==
    ~s.raised =>
        create_getter(s.es, s.ith, s.htn, FieldKind(Watched), s.pr[Watched]).name
            = value

\* C3 (Spec): in every reachable state, for every name X of a live entity the
\* validator accepts, setting the property to X and reading it at once
\* returns X.
C3_SetGetRoundTrip ==
    \A value \in Names :
        Lookup(ents, FieldKind(Watched), value) # 0 =>
            ReadsBack(value,
                      create_setter(ents, scenes, ID_TO_HASH, HASH_TO_NAME, props,
                                    Watched, value, TRUE))

\* first and second are what two reads of h's id in succession return, the
\* first in the state before the step and the second in the state after it.
TwoReads(h, k, first, second) ==
    /\ second.val = first.val
    /\ second.es = ents'
    /\ second.sc = scenes'
    /\ ents[h].raw # 0 =>
          /\ ents'[h].raw = ents[h].raw
          /\ \A s \in DOMAIN scenes : scenes'[s][k] = scenes[s][k]
    /\ ents[h].raw = 0 =>
          /\ ents'[h].raw = _get_global_id(scenes, k)
          /\ _get_global_id(scenes', k) = ents'[h].raw + 1

\* C4 (SpecLinked): reading an entity's id twice in succession returns the
\* same value; the first read stores an id and advances the counter of the
\* entity's kind exactly when the raw id was unset, and the second read
\* changes no raw id and no counter.
C4_IdempotentAllocation ==
    [][\A h \in Handles :
          IdRead(h) =>
            TwoReads(h, ents[h].kind,
                     _create_id_getter(ents, scenes, h),
                     _create_id_getter(ents', scenes', h))]_vars

\* A linked object whose id was just read, its library's id allocated with it.
C4_Witness ==
    /\ last = "id"
    /\ \E h \in Handles :
          /\ ents[h].alive /\ ents[h].lib # 0
          /\ ents[h].raw # 0 /\ ents[ents[h].lib].raw # 0

\* C5 (SpecScenes): A has an id recorded in the cache and another property
\* resolves to A; D shares A's raw id with a different hash.  Setting a
\* property to D gives D a fresh id different from A's, stores it, leaves A's
\* raw id alone, and the other property still resolves to A's name.
C5_DuplicateRepair ==
    [][\A f \in Fields, value \in Names, valid \in BOOLEAN, A \in Handles :
          LET D  == Lookup(ents, FieldKind(f), value)
              f0 == CHOOSE x \in Fields : x # f
              after == create_getter(ents', ID_TO_HASH', HASH_TO_NAME',
                                     FieldKind(f0), props'[f0])
          IN  ( /\ Set(f, value, valid)
                /\ D # 0 /\ Valid(f, valid)
                /\ A # D /\ ents[A].alive /\ ents[A].kind = FieldKind(f)
                /\ ents[A].raw # 0 /\ ents[D].raw = ents[A].raw
                /\ DictGet(ID_TO_HASH[FieldKind(f)], ents[A].raw, NoneVal) = Hash(A)
                /\ props[f0] = ents[A].raw
                /\ ReadName(f0) = ents[A].name )
              =>
              ( /\ ents'[D].raw # 0
                /\ ents'[D].raw # ents[A].raw
                /\ props'[f] = ents'[D].raw
                /\ ents'[A].raw = ents[A].raw
                /\ after.name = ents[A].name )]_vars

\* C6 (SpecScenes): right after load_file no two live entities of one kind
\* hold the same raw id.
C6_UniqueAfterReload ==
    last = "load" =>
        \A k \in Kinds : \A a, b \in Live(ents, k) :
            a # b => ents[a].raw # ents[b].raw

\* C7 (SpecCounter): after _inc_global_id(k, m) with m the observed maximum,
\* every scene's copy of the k counter is m + 1, _get_global_id(k) is m + 1,
\* and the counters of the other kinds are as before.
C7_CounterWriteThrough ==
    [][\A k \in Kinds :
          Advance(k) =>
            LET m == _get_global_id(scenes, k)
            IN  /\ \A s \in DOMAIN scenes' : scenes'[s][k] = m + 1
                /\ _get_global_id(scenes', k) = m + 1
                /\ \A s \in DOMAIN scenes' : \A k2 \in Kinds \ {k} :
                      scenes'[s][k2] = scenes[s][k2]]_vars

\* Two scenes that agree on objects right after an allocation while the
\* second, created later, still differs on materials.
C7_Witness ==
    /\ last = "advance"
    /\ Len(scenes) = 2
    /\ scenes[1]["objects"] = 3 /\ scenes[2]["objects"] = 3
    /\ scenes[1]["materials"] = 2 /\ scenes[2]["materials"] = 1
    /\ scenes[1]["groups"] = 1 /\ scenes[1]["libraries"] = 1

C9_RejectedSetChangesNothing ==
    [][\A value \in Names :
          ( /\ Set(Watched, value, FALSE)
            /\ Lookup(ents, FieldKind(Watched), value) # 0 )
          => /\ last' = "rejected"
             /\ UNCHANGED <<props, ents, ID_TO_HASH, HASH_TO_NAME, scenes>>]_vars

\* A refused set on a property that holds a reference to a second entity.
C9_Witness ==
    /\ last = "rejected"
    /\ props[Watched] > 0
    /\ \E h \in Handles : ents[h].alive /\ ents[h].raw = 0

\* C10 (SpecScenes): _get_global_id(k) never decreases, and right after an
\* allocation of kind k all scenes hold the same k counter.
C10_CounterMonotonic ==
    [][\A k \in Kinds :
          /\ _get_global_id(scenes', k) >= _get_global_id(scenes, k)
          /\ ( /\ Len(scenes') = Len(scenes)
               /\ \E s \in DOMAIN scenes : scenes'[s][k] # scenes[s][k] )
             => \A s, t \in DOMAIN scenes' : scenes'[s][k] = scenes'[t][k]]_vars

\* The value r returned for h's id is the raw id h holds then, plus the
\* library offset computed from the raw id the library holds then.
IsEffectiveId(h, r) ==
    ~r.raised =>
        r.val = IF ents[h].lib = 0 THEN r.es[h].raw
                ELSE r.es[h].raw + (r.es[ents[h].lib].raw + 1) * LIB_ID_SPACE

\* ra is what reading a's id returned; b's id read next differs from it.
ReadsDiffer(b, ra) ==
    ~ra.raised =>
        \/ _create_id_getter(ra.es, ra.sc, b).raised
        \/ _create_id_getter(ra.es, ra.sc, b).val # ra.val

\* C11 (SpecLinked): the id read off a live entity is its raw id if it is
\* not linked and raw id + (id of its library + 1) * LIB_ID_SPACE if it is;
\* and two live entities of one kind with the same raw id below LIB_ID_SPACE
\* and different sources (local and a library, or two libraries) read
\* different ids.
C11_EffectiveId ==
    /\ \A h \in Handles :
          ents[h].alive => IsEffectiveId(h, _create_id_getter(ents, scenes, h))
    /\ \A a, b \in Handles :
          ( /\ a # b /\ ents[a].alive /\ ents[b].alive
            /\ ents[a].kind = ents[b].kind
            /\ ents[a].raw # 0 /\ ents[a].raw = ents[b].raw
            /\ ents[a].raw < LIB_ID_SPACE
            /\ ents[a].lib # ents[b].lib )
          => ReadsDiffer(b, _create_id_getter(ents, scenes, a))

\* The name r returned for field f, if it names a live entity, names the
\* entity whose hash ID_TO_HASH records for the stored id.
NamesRecordedObject(f, r) ==
    Lookup(ents, FieldKind(f), r.name) # 0 =>
        Hash(Lookup(ents, FieldKind(f), r.name))
            = DictGet(r.ith[FieldKind(f)], props[f], NoneVal)

\* C12 (Spec): whenever reading the property returns a name of a live
\* entity, that entity's hash is the one ID_TO_HASH holds for the stored id;
\* so a name that has passed from the target to another entity is not
\* returned.
C12_ResolvesSameObject ==
    NamesRecordedObject(Watched,
        create_getter(ents, ID_TO_HASH, HASH_TO_NAME, FieldKind(Watched),
                      props[Watched]))

\* E is the one live entity of field f's kind whose id is the stored id
\* (E is local, so its id is its raw id).
HoldsStoredId(f, E) ==
    /\ ents[E].alive /\ ents[E].kind = FieldKind(f)
    /\ ents[E].raw # 0
    /\ ents[E].lib = 0
    /\ props[f] = ents[E].raw
    /\ \A o \in Live(ents, FieldKind(f)) : o # E => ents[o].raw # ents[E].raw

\* C13 (Spec): whatever the two caches hold, if the stored id of the
\* property is the id of a live entity E of the target kind, reading the
\* property returns E's current name.
C13_RecoversFromCollection ==
    \A E \in Handles :
        HoldsStoredId(Watched, E) => ReadName(Watched) = ents[E].name

\* w is, among the live entities that share w's id, the one load_file meets
\* first: the one whose name is last in ascending order.
FirstOfGroup(w) ==
    /\ ents[w].alive /\ ents[w].raw # 0 /\ ents[w].lib = 0
    /\ \A x \in Live(ents, ents[w].kind) :
          (ents[x].lib = 0 /\ ents[x].raw = ents[w].raw)
              => NameRank(ents[x].name) <= NameRank(ents[w].name)

\* C14 (SpecScenes): when live entities of one kind share an id as
\* load_file runs, the one whose name comes first in descending order keeps
\* the id and ID_TO_HASH maps the id to it; every other entity of the group
\* ends with an id different from the shared one and from the id of every
\* other live entity of the kind.
C14_ReloadWinner ==
    [][Reload =>
         \A w, o \in Handles :
            ( /\ FirstOfGroup(w)
              /\ o # w /\ ents[o].alive /\ ents[o].kind = ents[w].kind
              /\ ents[o].lib = 0 /\ ents[o].raw = ents[w].raw )
            =>
            ( /\ ents'[w].raw = ents[w].raw
              /\ DictGet(ID_TO_HASH'[ents[w].kind], ents[w].raw, NoneVal) = Hash(w)
              /\ ents'[o].raw # 0
              /\ ents'[o].raw # ents[w].raw
              /\ \A x \in Live(ents', ents[w].kind) :
                    x # o => ents'[x].raw # ents'[o].raw )]_vars

\* The property written to entity b in the state the set s1 left behind.
ThenSetTo(b, s1) ==
    create_setter(s1.es, s1.sc, s1.ith, s1.htn, s1.pr, Watched, ents[b].name, TRUE)

\* After the two sets that ended with s2, one of a and b holds id and the
\* other holds a different id.
OneKeeps(a, b, id, s2) ==
    ~s2.raised =>
        /\ s2.es[a].raw # 0 /\ s2.es[b].raw # 0
        /\ s2.es[a].raw # s2.es[b].raw
        /\ (s2.es[a].raw = id) # (s2.es[b].raw = id)

\* C15 (Spec): whenever two live entities of one kind share a raw id (one
\* is a copy of the other), with or without an ID_TO_HASH entry for that id,
\* writing a reference to the one and then to the other leaves exactly one
\* of them with the original id and the other with a different id.
C15_OneKeepsOriginal ==
    \A a, b \in Handles :
        ( /\ a # b /\ ents[a].alive /\ ents[b].alive
          /\ ents[a].kind = FieldKind(Watched) /\ ents[b].kind = FieldKind(Watched)
          /\ ents[a].raw # 0 /\ ents[a].raw = ents[b].raw )
        => OneKeeps(a, b, ents[a].raw,
                    ThenSetTo(b, create_setter(ents, scenes, ID_TO_HASH, HASH_TO_NAME,
                                               props, Watched, ents[a].name, TRUE)))

\* r is what reading the Watched property returns in the state after the
\* step: the empty string, the caches left as they are.
ReadsEmpty(r) ==
    /\ r.name = ""
    /\ r.ith = ID_TO_HASH'
    /\ r.htn = HASH_TO_NAME'

\* C16 (Spec): a set to the empty string stores 0 and the property then
\* reads as the empty string; a set to a name no live entity of the target
\* kind carries leaves the stored id as it was; neither changes a raw id, a
\* cache or a counter.
C16_EmptyOrUnresolvable ==
    [][\A value \in Names \cup {""}, valid \in BOOLEAN :
          ( /\ Set(Watched, value, valid)
            /\ Lookup(ents, FieldKind(Watched), value) = 0 )
          => /\ value = "" =>
                   /\ props'[Watched] = 0
                   /\ ReadsEmpty(create_getter(ents', ID_TO_HASH', HASH_TO_NAME',
                                               FieldKind(Watched), props'[Watched]))
             /\ value # "" => props' = props
             /\ UNCHANGED <<ents, ID_TO_HASH, HASH_TO_NAME, scenes>>]_vars

\* A set to a name nothing carries, on a property cleared before, while an
\* entity with an id and a cache entry is live.
C16_Witness ==
    /\ last = "ignored"
    /\ props[Watched] = 0
    /\ \E h \in Handles :
          /\ ents[h].alive /\ ents[h].raw # 0
          /\ DictGet(ID_TO_HASH[ents[h].kind], ents[h].raw, NoneVal) = Hash(h)

\* C17 (SpecScenes): in every reachable state _get_global_id(k) is greater
\* than the raw id of every live entity of kind k that is not linked, so the
\* next id handed out is held by no such entity.
C17_FreshIdsNeverCollide ==
    \A k \in Kinds : \A h \in Live(ents, k) :
        ents[h].lib = 0 => _get_global_id(scenes, k) > ents[h].raw

\* The id h exposes in the current state, h holding a raw id.
StoredEffectiveId(h) ==
    ents[h].raw + (IF ents[h].lib = 0 THEN 0
                   ELSE (ents[ents[h].lib].raw + 1) * LIB_ID_SPACE)

\* C18 (SpecScenes): right after load_file every live entity of a supported
\* kind holds a raw id, ID_TO_HASH maps its id to its hash and HASH_TO_NAME
\* maps its hash to its name; and the two caches hold no hash of an entity
\* that is not live.
C18_CacheExactAfterReload ==
    last = "load" =>
        \A k \in Kinds :
            /\ \A e \in Live(ents, k) :
                  /\ ents[e].raw # 0
                  /\ DictGet(ID_TO_HASH[k], StoredEffectiveId(e), NoneVal) = Hash(e)
                  /\ DictGet(HASH_TO_NAME[k], Hash(e), NoneName) = ents[e].name
            /\ \A id \in DOMAIN ID_TO_HASH[k] :
                  \E e \in Live(ents, k) : ID_TO_HASH[k][id] = Hash(e)
            /\ \A hash \in DOMAIN HASH_TO_NAME[k] :
                  \E e \in Live(ents, k) : hash = Hash(e)

\* C19 (SpecSteps): a read of the same entity's id that comes in after the
\* raw id has been stored returns that id and changes no counter and no raw
\* id; and when the call returns with no read having come in before the
\* store, every scene's counter is one above the counter the call began with.
C19_ReentrantAllocation ==
    [][ /\ (GetterReenter /\ call.pc = "inc") =>
              /\ _create_id_getter(ents, scenes, call.h).val = call.id
              /\ ents[call.h].raw = call.id
              /\ scenes' = scenes
              /\ ents' = ents
        /\ (GetterReturn /\ ~call.early) =>
              /\ ents'[call.h].raw = call.start
              /\ \A s \in DOMAIN scenes' :
                    scenes'[s][ents[call.h].kind] = call.start + 1 ]_vars

\* A call has returned after reads came in, the first of them in the course
\* of the writes to the scenes.
C19_Witness ==
    /\ last = "id"
    /\ call.pc = "idle" /\ call.h # 0
    /\ call.inner = MaxReentries /\ ~call.early
    /\ Len(scenes) = 2

\* C20 (SpecNoScene): with no scene, reading the id of an entity whose raw
\* id is unset ends in the exception; no raw id, no counter and neither
\* cache changes, the entity's raw id stays unset.
C20_FailFastNoScenes ==
    [][\A h \in Handles :
          ( /\ IdRead(h) \/ IdReadRaises(h)
            /\ DOMAIN scenes = {}
            /\ ents[h].raw = 0 )
          => /\ last' = "raised"
             /\ ents'[h].raw = 0
             /\ UNCHANGED <<ents, scenes, ID_TO_HASH, HASH_TO_NAME>>]_vars

\* The read of a linked object without id has just failed, no scene present.
C20_Witness ==
    /\ last = "raised"
    /\ DOMAIN scenes = {}
    /\ \E h \in Handles : ents[h].alive /\ ents[h].lib # 0 /\ ents[h].raw = 0

====
